---- MODULE Spec2Model ----
(***************************************************************************)
(* Model of api/logs/v1/labels_enforcer.go: the middleware                 *)
(* WithEnforceAuthorizationLabels and enforceValues, which rewrite the     *)
(* LogQL `query` parameter of a request so that it carries the label       *)
(* matchers returned by the authorizer.                                    *)
(*                                                                         *)
(* A query text is a sequence of lexemes (strings).  An expression tree is *)
(* a record tagged by `type`.  The LogQL package (parser, Walk, the two    *)
(* Append methods, String) is not part of the modelled file; it is         *)
(* modelled after its specification.                                       *)
(***************************************************************************)
EXTENDS Integers, Sequences, FiniteSets

VARIABLES
    ctx,          \* r.Context(): [has, data], the authorization payload
    rawQuery,     \* r.URL.RawQuery: sequence of [k, v] pairs
    pc,           \* position of the handler
    matchersInfo, \* the decoded AuthzResponseData
    v,            \* url.Values handed to enforceValues
    expr,         \* the expression tree enforceValues works on
    resp,         \* what was written to the http.ResponseWriter
    nextCalls,    \* how many times next.ServeHTTP ran for this request
    nextSaw,      \* r.URL.RawQuery as next.ServeHTTP saw it
    inQuery,      \* history: r.URL.RawQuery when the request arrived
    expr0,        \* history: the tree as ParseExpr returned it
    origExpr,     \* history: the tree parsed in the first pass
    runs          \* history: passes through the middleware so far

vars == <<ctx, rawQuery, pc, matchersInfo, v, expr, resp, nextCalls, nextSaw,
          inQuery, expr0, origExpr, runs>>

----------------------------------------------------------------------------
(* Bounds of the model. *)

MaxMatchers == 2
MaxDepth == 1
MaxRuns == 2

----------------------------------------------------------------------------
(* Let(val, body) is body applied to val: a value computed once and used   *)
(* several times.                                                          *)

Let(val, body(_)) == body(val)

----------------------------------------------------------------------------
(* Program constants. *)

logicalOr == "or"
queryParam == "query"
StatusInternalServerError == 500

----------------------------------------------------------------------------
(* Label matchers (prometheus labels.Matcher): name, kind, value. *)

MatchOps == {"=", "!=", "=~", "!~"}

Matcher(n, k, val) == [name |-> n, kind |-> k, value |-> val]

QueryMatchers == <<Matcher("app", "=", "foo"), Matcher("env", "!=", "dev")>>

AuthzMatchers == {Matcher("tenant", "=", "t1"), Matcher("app", "=", "foo")}

RECURSIVE SeqsUpTo(_, _)
SeqsUpTo(S, n) ==
    IF n = 0 THEN {<<>>}
    ELSE SeqsUpTo(S, n - 1) \cup {Append(s, x) : s \in SeqsUpTo(S, n - 1), x \in S}

MatcherSeqs == SeqsUpTo(AuthzMatchers, MaxMatchers)

----------------------------------------------------------------------------
(* Expression trees. *)

NoExpr == [type |-> "none"]

StreamMatcherExpr(ms) == [type |-> "StreamMatcherExpr", matchers |-> ms]

LogQueryExpr(sel, stages) == [type |-> "LogQueryExpr", left |-> sel, filter |-> stages]

LogMetricExpr(e) == [type |-> "LogMetricExpr", arg |-> e]

LogBinaryOpExpr(l, r) == [type |-> "LogBinaryOpExpr", lhs |-> l, rhs |-> r]

LineFilter(s) == [type |-> "LineFilter", matchers |-> <<>>, ops |-> <<>>, value |-> s]

LabelFilter(ms, os) == [type |-> "LabelFilter", matchers |-> ms, ops |-> os, value |-> ""]

----------------------------------------------------------------------------
(* logql/v2: rendering a tree as text (Expr.String). *)

RenderMatcher(m) == <<m.name, m.kind, m.value>>

Commas(n) == [i \in 1..n |-> ","]

RECURSIVE Join(_, _)
Join(ms, seps) ==
    IF ms = <<>> THEN <<>>
    ELSE IF Len(ms) = 1 THEN RenderMatcher(ms[1])
    ELSE RenderMatcher(Head(ms)) \o <<Head(seps)>> \o Join(Tail(ms), Tail(seps))

RenderStage(s) ==
    IF s.type = "LineFilter" THEN <<"|=", s.value>>
    ELSE <<"|">> \o Join(s.matchers, s.ops)

RECURSIVE RenderStages(_)
RenderStages(ss) ==
    IF ss = <<>> THEN <<>> ELSE RenderStage(Head(ss)) \o RenderStages(Tail(ss))

RECURSIVE String(_)
String(e) ==
    CASE e.type = "StreamMatcherExpr" ->
            <<"{">> \o Join(e.matchers, Commas(Len(e.matchers) - 1)) \o <<"}">>
      [] e.type = "LogQueryExpr" -> String(e.left) \o RenderStages(e.filter)
      [] e.type = "LogMetricExpr" -> <<"sum", "(">> \o String(e.arg) \o <<")">>
      [] e.type = "LogBinaryOpExpr" -> String(e.lhs) \o <<"/">> \o String(e.rhs)
      [] OTHER -> <<>>

----------------------------------------------------------------------------
(* logql/v2: the parser (ParseExpr), by recursive descent over the lexemes. *)
(* Every parse step returns [ok, val, rest].                                *)

Connectives == {"or", "and"}

Punct == {"{", "}", ",", "|", "|=", "(", ")", "/", "sum"} \cup Connectives \cup MatchOps

Fail(toks) == [ok |-> FALSE, val |-> <<>>, rest |-> toks]

FailExpr(toks) == [ok |-> FALSE, val |-> NoExpr, rest |-> toks]

StartsWith(toks, t) == toks /= <<>> /\ Head(toks) = t

ParseMatcher(toks) ==
    IF Len(toks) >= 3 /\ toks[1] \notin Punct /\ toks[2] \in MatchOps /\ toks[3] \notin Punct
    THEN [ok |-> TRUE, val |-> <<Matcher(toks[1], toks[2], toks[3])>>,
          rest |-> SubSeq(toks, 4, Len(toks))]
    ELSE Fail(toks)

(* matcher (sep matcher)*, sep drawn from seps: val the matchers, sep the separators. *)
FailList(toks) == [ok |-> FALSE, val |-> <<>>, sep |-> <<>>, rest |-> toks]

RECURSIVE ParseMatcherList(_, _)
ParseMatcherList(toks, seps) ==
    Let(ParseMatcher(toks), LAMBDA m :
        IF ~m.ok THEN FailList(toks)
        ELSE IF m.rest /= <<>> /\ Head(m.rest) \in seps
        THEN Let(ParseMatcherList(Tail(m.rest), seps), LAMBDA more :
                 IF ~more.ok THEN FailList(toks)
                 ELSE [ok |-> TRUE, val |-> m.val \o more.val,
                       sep |-> <<Head(m.rest)>> \o more.sep, rest |-> more.rest])
        ELSE [ok |-> TRUE, val |-> m.val, sep |-> <<>>, rest |-> m.rest])

ParseSelector(toks) ==
    IF ~StartsWith(toks, "{") THEN FailExpr(toks)
    ELSE Let(ParseMatcherList(Tail(toks), {","}), LAMBDA l :
             IF l.ok /\ StartsWith(l.rest, "}")
             THEN [ok |-> TRUE, val |-> StreamMatcherExpr(l.val), rest |-> Tail(l.rest)]
             ELSE FailExpr(toks))

(* stages so far, then the stages of the remaining text *)
RECURSIVE ParseStages(_, _)
ParseStages(toks, acc) ==
    IF StartsWith(toks, "|=")
    THEN IF Len(toks) >= 2 /\ toks[2] \notin Punct
         THEN ParseStages(SubSeq(toks, 3, Len(toks)), Append(acc, LineFilter(toks[2])))
         ELSE Fail(toks)
    ELSE IF StartsWith(toks, "|")
    THEN Let(ParseMatcherList(Tail(toks), Connectives), LAMBDA l :
             IF ~l.ok THEN Fail(toks)
             ELSE ParseStages(l.rest, Append(acc, LabelFilter(l.val, l.sep))))
    ELSE [ok |-> TRUE, val |-> acc, rest |-> toks]

(* A bare selector is a log query with an empty pipeline. *)
ParseLogQuery(toks) ==
    Let(ParseSelector(toks), LAMBDA s :
        IF ~s.ok THEN FailExpr(toks)
        ELSE Let(ParseStages(s.rest, <<>>), LAMBDA p :
                 IF p.ok THEN [ok |-> TRUE, val |-> LogQueryExpr(s.val, p.val), rest |-> p.rest]
                 ELSE FailExpr(toks)))

RECURSIVE ParseTerm(_), ParseBinary(_)
ParseTerm(toks) ==
    IF StartsWith(toks, "sum")
    THEN IF Len(toks) >= 2 /\ toks[2] = "("
         THEN Let(ParseBinary(SubSeq(toks, 3, Len(toks))), LAMBDA inner :
                  IF inner.ok /\ StartsWith(inner.rest, ")")
                  THEN [ok |-> TRUE, val |-> LogMetricExpr(inner.val), rest |-> Tail(inner.rest)]
                  ELSE FailExpr(toks))
         ELSE FailExpr(toks)
    ELSE ParseLogQuery(toks)

ParseBinary(toks) ==
    Let(ParseTerm(toks), LAMBDA l :
        IF ~l.ok THEN FailExpr(toks)
        ELSE IF StartsWith(l.rest, "/")
        THEN Let(ParseTerm(Tail(l.rest)), LAMBDA r :
                 IF r.ok THEN [ok |-> TRUE, val |-> LogBinaryOpExpr(l.val, r.val), rest |-> r.rest]
                 ELSE FailExpr(toks))
        ELSE l)

ParseExpr(text) ==
    Let(ParseBinary(text), LAMBDA r :
        IF r.ok /\ r.rest = <<>> THEN [expr |-> r.val, err |-> FALSE]
        ELSE [expr |-> NoExpr, err |-> TRUE])

----------------------------------------------------------------------------
(* logql/v2: the mutators. *)

(* StreamMatcherExpr.AppendMatchers *)
AppendMatchers(le, ms) == [le EXCEPT !.matchers = @ \o ms]

(* mutant: a stage is appended even when there is nothing to join *)
AppendPipelineMatchersAlways(le, ms, op) ==
    [le EXCEPT !.filter = Append(@, LabelFilter(ms, [i \in 1..(Len(ms) - 1) |-> op]))]

(* LogQueryExpr.AppendPipelineMatchers: one stage joining ms by op *)
AppendPipelineMatchers(le, ms, op) ==
    IF ms = <<>> THEN le
    ELSE [le EXCEPT !.filter = Append(@, LabelFilter(ms, [i \in 1..(Len(ms) - 1) |-> op]))]

----------------------------------------------------------------------------
(* net/url: url.Values is a map from a name to its values in order; the    *)
(* raw query string is the sequence of its name=value pairs.               *)

Pair(k, x) == [k |-> k, v |-> x]

ParamNames == <<"limit", "query", "start">>   \* the names in use, in sorted order

(* URL.Query *)
Query(raw) ==
    [k \in {raw[i].k : i \in DOMAIN raw} |->
        Let(SelectSeq(raw, LAMBDA p : p.k = k), LAMBDA mine :
            [i \in 1..Len(mine) |-> mine[i].v])]

(* Values.Get: the first value, or "" *)
Get(vals, k) == IF k \in DOMAIN vals /\ vals[k] /= <<>> THEN vals[k][1] ELSE <<>>

(* Values.Set: replaces every value of k *)
Set(vals, k, x) == [kk \in DOMAIN vals \cup {k} |-> IF kk = k THEN <<x>> ELSE vals[kk]]

(* Values.Encode: sorted by name, a name's values in order *)
RECURSIVE EncodeFrom(_, _)
EncodeFrom(vals, i) ==
    IF i > Len(ParamNames) THEN <<>>
    ELSE Let(ParamNames[i], LAMBDA k :
             IF k \in DOMAIN vals THEN [j \in 1..Len(vals[k]) |-> Pair(k, vals[k][j])]
             ELSE <<>>) \o EncodeFrom(vals, i + 1)

Encode(vals) == EncodeFrom(vals, 1)

NoValues == [k \in {} |-> <<>>]

----------------------------------------------------------------------------
(* The authorization payload: a string holding a JSON document. *)

JAbsent == [j |-> "absent", arr |-> <<>>, str |-> ""]

JArr(a) == [j |-> "arr", arr |-> a, str |-> ""]

JStr(t) == [j |-> "str", arr |-> <<>>, str |-> t]

EmptyData == [kind |-> "empty", matchers |-> JAbsent, logicalOp |-> JAbsent]

Garbage == [kind |-> "garbage", matchers |-> JAbsent, logicalOp |-> JAbsent]

Object(m, o) == [kind |-> "object", matchers |-> m, logicalOp |-> o]

(* json.Unmarshal into AuthzResponseData *)
Unmarshal(data) ==
    IF data.kind = "object" /\ data.matchers.j \in {"absent", "arr"}
                            /\ data.logicalOp.j \in {"absent", "str"}
    THEN [info |-> [Matchers |-> data.matchers.arr, LogicalOp |-> data.logicalOp.str],
          err |-> FALSE]
    ELSE [info |-> [Matchers |-> <<>>, LogicalOp |-> ""], err |-> TRUE]

(* authorization.GetData *)
GetData(c) == [data |-> IF c.has THEN c.data ELSE EmptyData, ok |-> c.has]

NoResponse == [code |-> 0, msg |-> ""]

(* httperr.PrometheusAPIError *)
PrometheusAPIError(msg, code) == [code |-> code, msg |-> msg]

----------------------------------------------------------------------------
(* enforceValues and the handler, as pure steps, and the traversal       *)
(* (logql/v2 Expr.Walk) that runs the callbacks.                          *)

(* mutant: the "or" callback also falls into the selector case *)
orVisitBoth(e, mInfo) ==
    CASE e.type = "LogQueryExpr" -> AppendPipelineMatchers(e, mInfo.Matchers, logicalOr)
      [] e.type = "StreamMatcherExpr" -> AppendMatchers(e, mInfo.Matchers)
      [] OTHER -> e

(* mutant: the "or" callback skips a log query that has no pipeline stage *)
orVisitPiped(e, mInfo) ==
    IF e.type = "LogQueryExpr" /\ e.filter /= <<>>
    THEN AppendPipelineMatchers(e, mInfo.Matchers, logicalOr)
    ELSE e

(* the callback of the "or" walk *)
orVisit(e, mInfo) ==
    IF e.type = "LogQueryExpr" THEN AppendPipelineMatchers(e, mInfo.Matchers, logicalOr)
    ELSE e

(* mutant: the constraint's matchers go in front of the selector's own *)
andVisitPrepend(e, mInfo) ==
    IF e.type = "StreamMatcherExpr" THEN [e EXCEPT !.matchers = mInfo.Matchers \o @]
    ELSE e

(* mutant: a matcher the selector already holds is not appended again *)
andVisitOnce(e, mInfo) ==
    IF e.type = "StreamMatcherExpr"
    THEN AppendMatchers(e, SelectSeq(mInfo.Matchers,
                                     LAMBDA m : \A i \in DOMAIN e.matchers : e.matchers[i] /= m))
    ELSE e

(* the callback of the default walk *)
andVisit(e, mInfo) ==
    IF e.type = "StreamMatcherExpr" THEN AppendMatchers(e, mInfo.Matchers)
    ELSE e

(* calling a callback *)
Visit(fn, e, mInfo) == IF fn = "orVisit" THEN orVisit(e, mInfo) ELSE andVisit(e, mInfo)

(* Expr.Walk: fn at the node, then the node's children, depth first.  The *)
(* callback fn is one of the two closures of enforceValues, named by      *)
(* Visit; arg is the mInfo it has captured.                                *)
RECURSIVE Walk(_, _, _)
Walk(fn, arg, e) ==
    Let(Visit(fn, e, arg), LAMBDA n :
        CASE n.type = "LogQueryExpr" -> [n EXCEPT !.left = Walk(fn, arg, n.left)]
          [] n.type = "LogMetricExpr" -> [n EXCEPT !.arg = Walk(fn, arg, n.arg)]
          [] n.type = "LogBinaryOpExpr" ->
                [n EXCEPT !.lhs = Walk(fn, arg, n.lhs), !.rhs = Walk(fn, arg, n.rhs)]
          [] OTHER -> n)

(* mutant: the comparison ignores case *)
IsLogicalOrFold(mInfo) == mInfo.LogicalOp \in {"or", "OR", "Or", "oR"}

IsLogicalOr(mInfo) == mInfo.LogicalOp = logicalOr

Inject(mInfo, e) ==
    IF IsLogicalOr(mInfo) THEN Walk("orVisit", mInfo, e) ELSE Walk("andVisit", mInfo, e)

(* mutant: only an absent parameter short-circuits *)
QueryIsAbsent(vals) == queryParam \notin DOMAIN vals

QueryIsEmpty(vals) == Get(vals, queryParam) = <<>>

Unchanged(vals) == Encode(vals)

(* mutant: the result is built from the query parameter alone *)
RewrittenOnlyQuery(vals, e) == Encode(Set(NoValues, queryParam, String(e)))

Rewritten(vals, e) == Encode(Set(vals, queryParam, String(e)))

IsEmptyPayload(data) == data = EmptyData

----------------------------------------------------------------------------
(* The requests the model is run on. *)

Logs ==
    { LogQueryExpr(StreamMatcherExpr(SubSeq(QueryMatchers, 1, 1)), <<>>),
      LogQueryExpr(StreamMatcherExpr(QueryMatchers), <<LineFilter("bar")>>) }

RECURSIVE Terms(_)
Exprs(d) == Terms(d) \cup {LogBinaryOpExpr(l, r) : l \in Logs, r \in Terms(d)}

Terms(d) == IF d = 0 THEN Logs ELSE Logs \cup {LogMetricExpr(e) : e \in Exprs(d - 1)}

BadTexts ==
    { <<"{", "app", "=", "foo">>,
      <<"sum", "(", "{", "app", "=", "foo", "}">>,
      <<"{", "app", "=", "foo", "}", "/">>,
      <<"{", "app", "}", "|=", "bar">> }

Texts == {String(e) : e \in Exprs(MaxDepth)} \cup BadTexts

AText == <<"{", "app", "=", "foo", "}">>

RawQueries ==
    { <<Pair("start", <<"1">>), Pair("query", q), Pair("limit", <<"10">>),
        Pair("start", <<"2">>)>> : q \in Texts \cup {<<>>} }
    \cup { <<>>, <<Pair("start", <<"1">>), Pair("limit", <<"10">>)>>,
           <<Pair("query", <<>>), Pair("query", AText)>>,
           <<Pair("query", AText), Pair("query", <<>>)>> }

LogicalOps == {"or", "and", "OR"}

Payloads ==
    { EmptyData, Garbage, Object(JStr("not-an-array"), JAbsent),
      Object(JAbsent, JArr(<<>>)), Object(JAbsent, JAbsent), Object(JAbsent, JStr("or")) }
    \cup { Object(JArr(ms), o) : ms \in MatcherSeqs,
                                 o \in {JAbsent} \cup {JStr(t) : t \in LogicalOps} }

Contexts == {[has |-> FALSE, data |-> EmptyData]} \cup {[has |-> TRUE, data |-> d] : d \in Payloads}

----------------------------------------------------------------------------
(* The state machine: one request through the middleware. *)

Init ==
    /\ ctx \in Contexts
    /\ rawQuery \in RawQueries
    /\ pc = "handler"
    /\ matchersInfo = [Matchers |-> <<>>, LogicalOp |-> ""]
    /\ v = NoValues
    /\ expr = NoExpr
    /\ resp = NoResponse
    /\ nextCalls = 0
    /\ nextSaw = <<>>
    /\ inQuery = rawQuery
    /\ expr0 = NoExpr
    /\ origExpr = NoExpr
    /\ runs = 0

Reject(msg) ==
    /\ resp' = PrometheusAPIError(msg, StatusInternalServerError)
    /\ pc' = "done"
    /\ UNCHANGED <<rawQuery, nextCalls, nextSaw>>

(* next.ServeHTTP(w, r) with r.URL.RawQuery = q *)
Forward(q) ==
    /\ rawQuery' = q
    /\ nextCalls' = nextCalls + 1
    /\ nextSaw' = q
    /\ pc' = "done"
    /\ UNCHANGED resp

(* lines 27-32: no authorization data in the context *)
HandleNoData ==
    /\ pc = "handler"
    /\ ~GetData(ctx).ok
    /\ Reject("error finding authorization label matcher")
    /\ UNCHANGED <<ctx, matchersInfo, v, expr, inQuery, expr0, origExpr, runs>>

(* mutant: the pass-through re-encodes the query string *)
HandlePassThroughEncoded ==
    /\ pc = "handler"
    /\ GetData(ctx).ok
    /\ GetData(ctx).data = EmptyData
    /\ Forward(Encode(Query(rawQuery)))
    /\ UNCHANGED <<ctx, matchersInfo, v, expr, inQuery, expr0, origExpr, runs>>

(* lines 34-40: empty payload, pass to next *)
HandlePassThrough ==
    /\ pc = "handler"
    /\ GetData(ctx).ok
    /\ IsEmptyPayload(GetData(ctx).data)
    /\ Forward(rawQuery)
    /\ UNCHANGED <<ctx, matchersInfo, v, expr, inQuery, expr0, origExpr, runs>>

(* lines 42-47: the payload does not decode *)
HandleBadPayload ==
    /\ pc = "handler"
    /\ GetData(ctx).ok
    /\ ~IsEmptyPayload(GetData(ctx).data)
    /\ Unmarshal(GetData(ctx).data).err
    /\ Reject("error parsing authorization label matchers")
    /\ UNCHANGED <<ctx, matchersInfo, v, expr, inQuery, expr0, origExpr, runs>>

(* lines 42-49: decoded; enforceValues is entered with r.URL.Query() *)
HandleDecoded ==
    /\ pc = "handler"
    /\ GetData(ctx).ok
    /\ ~IsEmptyPayload(GetData(ctx).data)
    /\ ~Unmarshal(GetData(ctx).data).err
    /\ matchersInfo' = Unmarshal(GetData(ctx).data).info
    /\ v' = Query(rawQuery)
    /\ pc' = "enforce"
    /\ UNCHANGED <<ctx, rawQuery, expr, resp, nextCalls, nextSaw, inQuery, expr0, origExpr, runs>>

(* lines 65-67, then 55-57: nothing to enforce *)
EnforceEmptyQuery ==
    /\ pc = "enforce"
    /\ QueryIsEmpty(v)
    /\ Forward(Unchanged(v))
    /\ UNCHANGED <<ctx, matchersInfo, v, expr, inQuery, expr0, origExpr, runs>>

(* mutant: the parse error is dropped and the request forwarded as it came *)
EnforceParseErrorForward ==
    /\ pc = "enforce"
    /\ ~QueryIsEmpty(v)
    /\ \E r \in {ParseExpr(Get(v, queryParam))} : r.err
    /\ Forward(rawQuery)
    /\ UNCHANGED <<ctx, matchersInfo, v, expr, inQuery, expr0, origExpr, runs>>

(* lines 69-72, then 50-54: the query does not parse *)
EnforceParseError ==
    /\ pc = "enforce"
    /\ ~QueryIsEmpty(v)
    /\ \E r \in {ParseExpr(Get(v, queryParam))} : r.err
    /\ Reject("could not enforce authorization label matchers")
    /\ UNCHANGED <<ctx, matchersInfo, v, expr, inQuery, expr0, origExpr, runs>>

(* line 69: the query parses *)
EnforceParsed ==
    /\ pc = "enforce"
    /\ ~QueryIsEmpty(v)
    /\ \E r \in {ParseExpr(Get(v, queryParam))} :
          /\ ~r.err
          /\ expr' = r.expr
          /\ expr0' = r.expr
          /\ origExpr' = IF runs = 0 THEN r.expr ELSE origExpr
    /\ pc' = "walk"
    /\ UNCHANGED <<ctx, rawQuery, matchersInfo, v, resp, nextCalls, nextSaw, inQuery, runs>>

(* lines 74-93: the walk *)
EnforceWalk ==
    /\ pc = "walk"
    /\ expr' = Inject(matchersInfo, expr)
    /\ runs' = runs + 1
    /\ pc' = "set"
    /\ UNCHANGED <<ctx, rawQuery, matchersInfo, v, resp, nextCalls, nextSaw, inQuery, expr0, origExpr>>

(* lines 95-97, then 55-57: the query parameter is replaced and the request forwarded *)
EnforceSet ==
    /\ pc = "set"
    /\ v' = Set(v, queryParam, String(expr))
    /\ Forward(Rewritten(v, expr))
    /\ UNCHANGED <<ctx, matchersInfo, expr, inQuery, expr0, origExpr, runs>>

(* The forwarded request meets the middleware again, with the same context. *)
Reenforce ==
    /\ pc = "done"
    /\ nextCalls = 1
    /\ runs >= 1
    /\ runs < MaxRuns
    /\ pc' = "handler"
    /\ resp' = NoResponse
    /\ nextCalls' = 0
    /\ nextSaw' = <<>>
    /\ inQuery' = rawQuery
    /\ v' = NoValues
    /\ expr' = NoExpr
    /\ expr0' = NoExpr
    /\ matchersInfo' = [Matchers |-> <<>>, LogicalOp |-> ""]
    /\ UNCHANGED <<ctx, rawQuery, origExpr, runs>>

Next ==
    \/ HandleNoData
    \/ HandlePassThrough
    \/ HandleBadPayload
    \/ HandleDecoded
    \/ EnforceEmptyQuery
    \/ EnforceParseError
    \/ EnforceParsed
    \/ EnforceWalk
    \/ EnforceSet
    \/ Reenforce

Spec == Init /\ [][Next]_vars

----------------------------------------------------------------------------
(* Observations of a tree, used to state the properties. *)

(* the matcher sequences of the Stream Selectors, depth first *)
RECURSIVE SelectorsOf(_)
SelectorsOf(e) ==
    CASE e.type = "StreamMatcherExpr" -> <<e.matchers>>
      [] e.type = "LogQueryExpr" -> SelectorsOf(e.left)
      [] e.type = "LogMetricExpr" -> SelectorsOf(e.arg)
      [] e.type = "LogBinaryOpExpr" -> SelectorsOf(e.lhs) \o SelectorsOf(e.rhs)
      [] OTHER -> <<>>

(* the stage sequences of the log queries, depth first *)
RECURSIVE PipelinesOf(_)
PipelinesOf(e) ==
    CASE e.type = "LogQueryExpr" -> <<e.filter>>
      [] e.type = "LogMetricExpr" -> PipelinesOf(e.arg)
      [] e.type = "LogBinaryOpExpr" -> PipelinesOf(e.lhs) \o PipelinesOf(e.rhs)
      [] OTHER -> <<>>

(* the tree without its matchers and stages *)
RECURSIVE Skeleton(_)
Skeleton(e) ==
    CASE e.type = "LogQueryExpr" -> <<"LogQueryExpr", <<e.left.type>>>>
      [] e.type = "LogMetricExpr" -> <<"LogMetricExpr", Skeleton(e.arg)>>
      [] e.type = "LogBinaryOpExpr" -> <<"LogBinaryOpExpr", Skeleton(e.lhs), Skeleton(e.rhs)>>
      [] OTHER -> <<e.type>>

RECURSIVE SumLen(_)
SumLen(ss) == IF ss = <<>> THEN 0 ELSE Len(Head(ss)) + SumLen(Tail(ss))

TotalMatchers(e) == SumLen(SelectorsOf(e))

TotalStages(e) == SumLen(PipelinesOf(e))

RECURSIVE Repeat(_, _)
Repeat(ss, n) == IF n = 0 THEN <<>> ELSE ss \o Repeat(ss, n - 1)

(* a stage that is the OR of ms *)
IsOrStageOf(st, ms) ==
    /\ st.type = "LabelFilter"
    /\ st.matchers = ms
    /\ Len(st.ops) = Len(ms) - 1
    /\ \A i \in DOMAIN st.ops : st.ops[i] = "or"

Walked == pc = "set"

AndMode == matchersInfo.LogicalOp /= "or"

OrMode == matchersInfo.LogicalOp = "or"

Constraint == matchersInfo.Matchers

(* this pass of the handler ended in an error response *)
Rejected == pc = "done" /\ resp.code = StatusInternalServerError /\ nextCalls = 0 /\ nextSaw = <<>>

(* this pass of the handler ended in exactly one call of next *)
Forwarded == pc = "done" /\ resp = NoResponse /\ nextCalls = 1 /\ nextSaw = rawQuery

PayloadDecodes ==
    /\ ctx.has
    /\ ctx.data.kind = "object"
    /\ ctx.data.matchers.j \in {"absent", "arr"}
    /\ ctx.data.logicalOp.j \in {"absent", "str"}

InputQueryText == Get(Query(inQuery), "query")

----------------------------------------------------------------------------
(* C1: AND/default mode. After the walk of a parsed query under a          *)
(* constraint whose logicalOp is not "or", each Stream Selector holds its  *)
(* original matchers followed by the constraint's matchers, in order, and  *)
(* no pipeline stage and no other part of the tree has changed.            *)
C1_AndInjection ==
    (Walked /\ AndMode) =>
        /\ Len(SelectorsOf(expr)) = Len(SelectorsOf(expr0))
        /\ \A i \in DOMAIN SelectorsOf(expr) :
               SelectorsOf(expr)[i] = SelectorsOf(expr0)[i] \o Constraint
        /\ PipelinesOf(expr) = PipelinesOf(expr0)
        /\ Skeleton(expr) = Skeleton(expr0)

C1_Witness ==
    /\ Walked /\ AndMode
    /\ Len(Constraint) = 2
    /\ Constraint[1] /= Constraint[2]
    /\ expr0.type = "LogBinaryOpExpr"
    /\ TotalStages(expr0) > 0
    /\ TotalMatchers(expr) = TotalMatchers(expr0) + 2 * Len(SelectorsOf(expr0))

(* C2: OR mode. After one walk of a parsed query under a constraint with   *)
(* logicalOp "or" and at least one matcher, each log query holds its       *)
(* original stages, in order, followed by exactly one new stage that is    *)
(* the OR of the constraint's matchers; every Stream Selector is unchanged.*)
C2_OrInjection ==
    (Walked /\ OrMode /\ Constraint /= <<>>) =>
        /\ Len(PipelinesOf(expr)) = Len(PipelinesOf(expr0))
        /\ \A i \in DOMAIN PipelinesOf(expr) :
               /\ Len(PipelinesOf(expr)[i]) = Len(PipelinesOf(expr0)[i]) + 1
               /\ SubSeq(PipelinesOf(expr)[i], 1, Len(PipelinesOf(expr0)[i]))
                      = PipelinesOf(expr0)[i]
               /\ IsOrStageOf(PipelinesOf(expr)[i][Len(PipelinesOf(expr)[i])], Constraint)
        /\ SelectorsOf(expr) = SelectorsOf(expr0)
        /\ Skeleton(expr) = Skeleton(expr0)

C2_Witness ==
    /\ Walked /\ OrMode
    /\ Len(Constraint) = 2
    /\ expr0.type = "LogBinaryOpExpr"
    /\ TotalStages(expr0) > 0
    /\ TotalStages(expr) = TotalStages(expr0) + Len(PipelinesOf(expr0))

(* C3 as stated: when the handler has finished and the payload was not in  *)
(* the context, or was non-empty and did not decode, or the (non-empty)    *)
(* query text does not parse, an error response was written, next was not  *)
(* called and the raw query is the one that arrived.  It fails when the    *)
(* payload is the empty string: the query is never parsed and the request  *)
(* is passed on.                                                           *)
C3_Original ==
    (pc = "done" /\ (\/ ~ctx.has
                     \/ ctx.has /\ ctx.data /= EmptyData /\ ~PayloadDecodes
                     \/ InputQueryText /= <<>> /\ ParseExpr(InputQueryText).err)) =>
        /\ resp.code = StatusInternalServerError
        /\ nextCalls = 0
        /\ nextSaw = <<>>
        /\ rawQuery = inQuery

(* C3, amended: fail closed. When the handler has finished and the payload *)
(* was not in the context, or was non-empty and did not decode, or was     *)
(* non-empty and decoded while the non-empty query text did not parse, an  *)
(* error response was written, next was not called and the request's raw   *)
(* query is the one that arrived.                                          *)
C3_FailClosed ==
    (pc = "done" /\ (\/ ~ctx.has
                     \/ ctx.has /\ ctx.data /= EmptyData /\ ~PayloadDecodes
                     \/ PayloadDecodes /\ InputQueryText /= <<>>
                                       /\ ParseExpr(InputQueryText).err)) =>
        /\ resp.code = StatusInternalServerError
        /\ nextCalls = 0
        /\ nextSaw = <<>>
        /\ rawQuery = inQuery

C3_Witness ==
    /\ Rejected
    /\ PayloadDecodes
    /\ InputQueryText /= <<>>
    /\ ParseExpr(InputQueryText).err
    /\ rawQuery = inQuery

(* C4: empty payload. When the payload in the context is the empty string  *)
(* the handler never parses or injects, and when it has finished it has    *)
(* written no error and called next exactly once with the raw query that   *)
(* arrived.                                                                *)
C4_EmptyPayloadPassThrough ==
    (ctx.has /\ ctx.data = EmptyData) =>
        /\ pc \in {"handler", "done"}
        /\ expr = NoExpr /\ expr0 = NoExpr /\ v = NoValues
        /\ resp = NoResponse
        /\ pc = "done" => (nextCalls = 1 /\ nextSaw = inQuery /\ rawQuery = inQuery)

C4_Witness ==
    /\ ctx.has /\ ctx.data = EmptyData
    /\ Forwarded
    /\ InputQueryText /= <<>>
    /\ Encode(Query(inQuery)) /= inQuery

(* C5: empty query. When the payload decodes (any mode, any matchers) and  *)
(* the `query` parameter is absent or empty, enforceValues returns without *)
(* error and without parsing, and what it returns holds the same parameter *)
(* set as its input.                                                       *)
C5_EmptyQueryShortCircuit ==
    (pc = "done" /\ PayloadDecodes /\ ctx.data /= EmptyData /\ InputQueryText = <<>>) =>
        /\ Forwarded
        /\ expr = NoExpr /\ expr0 = NoExpr
        /\ Query(rawQuery) = Query(inQuery)

C5_Witness ==
    /\ Forwarded /\ PayloadDecodes /\ ctx.data /= EmptyData
    /\ InputQueryText = <<>>
    /\ "query" \in DOMAIN Query(inQuery)
    /\ Len(Query(inQuery)["query"]) = 2
    /\ Constraint /= <<>>

(* C6: empty matcher sequence. After the walk of a parsed query under a    *)
(* constraint without matchers, in either mode, no selector has gained a   *)
(* matcher and no pipeline a stage: the tree is the parsed tree and renders*)
(* as it does.                                                             *)
C6_EmptyMatchersNoOp ==
    (Walked /\ Constraint = <<>>) =>
        /\ TotalMatchers(expr) = TotalMatchers(expr0)
        /\ TotalStages(expr) = TotalStages(expr0)
        /\ expr = expr0
        /\ String(expr) = String(expr0)

C6_Witness ==
    /\ Walked /\ Constraint = <<>> /\ OrMode
    /\ Len(PipelinesOf(expr0)) >= 2

C6_WitnessAnd ==
    /\ Walked /\ Constraint = <<>> /\ AndMode
    /\ Len(SelectorsOf(expr0)) >= 2

(* C7: only `query` is rewritten. When enforceValues has succeeded on a    *)
(* non-empty query, the forwarded parameter set has the names of the input *)
(* set, every parameter other than `query` has its input values, and       *)
(* `query` has the single value that is the rendering of the walked tree.  *)
C7_OnlyQueryRewritten ==
    (Forwarded /\ expr /= NoExpr) =>
        /\ DOMAIN Query(rawQuery) = DOMAIN Query(inQuery)
        /\ \A k \in DOMAIN Query(inQuery) :
               k /= "query" => Query(rawQuery)[k] = Query(inQuery)[k]
        /\ Query(rawQuery)["query"] = <<String(expr)>>

C7_Witness ==
    /\ Forwarded /\ expr /= NoExpr /\ expr /= expr0
    /\ "start" \in DOMAIN Query(rawQuery)
    /\ Len(Query(rawQuery)["start"]) = 2
    /\ rawQuery /= inQuery

(* C8: mode selection. After the walk of a parsed query: if logicalOp is   *)
(* exactly "or" the selectors are unchanged and, given matchers, the       *)
(* pipelines have grown; for any other logicalOp (absent, "and", "OR") the *)
(* pipelines are unchanged and, given matchers, the selectors have grown.  *)
(* Never both, and with matchers never neither.                            *)
C8_ModeSelection ==
    Walked =>
        /\ OrMode => /\ SelectorsOf(expr) = SelectorsOf(expr0)
                     /\ Constraint /= <<>> => TotalStages(expr) > TotalStages(expr0)
        /\ AndMode => /\ PipelinesOf(expr) = PipelinesOf(expr0)
                      /\ Constraint /= <<>> => TotalMatchers(expr) > TotalMatchers(expr0)

C8_Witness ==
    /\ Walked /\ matchersInfo.LogicalOp = "OR" /\ Constraint /= <<>>
    /\ TotalMatchers(expr) > TotalMatchers(expr0)
    /\ TotalStages(expr) = TotalStages(expr0)

C8_WitnessAbsent ==
    /\ Walked /\ ctx.data.logicalOp.j = "absent" /\ Constraint /= <<>>
    /\ TotalMatchers(expr) > TotalMatchers(expr0)

(* C9: no idempotence. After the n-th walk of a query under a constraint   *)
(* with matchers, each Stream Selector (AND mode) holds its original       *)
(* matchers and n copies of the constraint's, each log query (OR mode) its *)
(* original stages and n OR stages; the tree differs from, and is larger   *)
(* than, the tree the pass started from.                                   *)
C9_NotIdempotent ==
    (Walked /\ Constraint /= <<>>) =>
        /\ AndMode => \A i \in DOMAIN SelectorsOf(origExpr) :
               SelectorsOf(expr)[i] = SelectorsOf(origExpr)[i] \o Repeat(Constraint, runs)
        /\ OrMode => \A i \in DOMAIN PipelinesOf(origExpr) :
               /\ Len(PipelinesOf(expr)[i]) = Len(PipelinesOf(origExpr)[i]) + runs
               /\ \A j \in 1..runs :
                      IsOrStageOf(PipelinesOf(expr)[i][Len(PipelinesOf(origExpr)[i]) + j],
                                  Constraint)
        /\ expr /= expr0
        /\ TotalMatchers(expr) + TotalStages(expr) > TotalMatchers(expr0) + TotalStages(expr0)

C9_Witness ==
    /\ Walked /\ Constraint /= <<>> /\ runs = 2
    /\ AndMode
    /\ expr0 /= origExpr
    /\ TotalMatchers(expr) = TotalMatchers(origExpr) + 2 * Len(Constraint) * Len(SelectorsOf(origExpr))

C9_WitnessOr ==
    /\ Walked /\ Constraint /= <<>> /\ runs = 2
    /\ OrMode
    /\ TotalStages(expr) = TotalStages(origExpr) + 2 * Len(PipelinesOf(origExpr))

====
